---- MODULE Spec2Model ----
(***************************************************************************)
(* Newsletter subscriber lifecycle and notification dispatch of the       *)
(* elisabeth-constantin backend.                                           *)
(*                                                                         *)
(* The subscriber collection is a MongoDB collection without any unique    *)
(* index: it is a sequence of documents in insertion order; find_one and   *)
(* update_one act on the first document matching the filter.               *)
(*                                                                         *)
(* The web handlers, the webhook and the reconciliation script run in      *)
(* separate workers/processes that share the collection, so a handler is   *)
(* split at its database calls: everything a handler computes between two  *)
(* database calls belongs to the step of the earlier call.                 *)
(***************************************************************************)
EXTENDS Integers, Sequences, FiniteSets, TLC

VARIABLES
    store,      \* subscribers_collection: sequence of documents
    now,        \* datetime.utcnow(), in abstract instants
    proc,       \* per worker: the request in flight and its locals
    resp,       \* per worker: the response of its last finished request
    disp,       \* the background notification task and its locals
    ml,         \* the subscribers the MailerLite account holds
    groups,     \* the groups named newsletter_site the MailerLite account holds
    catalog     \* artworks, events and the background tasks added for them

vars == <<store, now, proc, resp, disp, ml, groups, catalog>>

----------------------------------------------------------------------------
(* Bounds *)

MaxProcs == 2      \* concurrent workers of the race specifications
MaxTime == 2       \* last instant a timestamped write may happen
MaxBatch == 1      \* items of a webhook batch / provider listing
MaxDocs == 3       \* documents of an initial store (dispatch specification)
MaxMails == 2      \* opt-in mails the provider sends to one address
MaxSent == 1       \* "sent" events counted for one subscriber
MaxGroups == 3     \* groups of one name the provider account holds
MaxTasks == 2      \* background tasks waiting to run

Procs == 1..MaxProcs

----------------------------------------------------------------------------
(* Values *)

Emails == {"ann@x.fr"}
RawEmails == {"ann@x.fr", "Ann@X.fr"}
DispatchEmails == <<"ann@x.fr", "bob@x.fr", "cat@x.fr", "dan@x.fr">>

\* str.lower() on the addresses of the model
Lower(s) == IF s = "Ann@X.fr" THEN "ann@x.fr" ELSE s

\* f"EC10-{secrets.token_hex(3).upper()}": a random code
PromoCodes == {"EC10-A1B2C3", "EC10-D4E5F6"}

\* a handler that generates no code draws none: promo is then a fixed value
\* that is not used
Draws(promo, generates) == generates \/ promo = "EC10-A1B2C3"

PENDING == "pending"
CONFIRMED == "confirmed"
UNSUBSCRIBED == "unsubscribed"
BOUNCED == "bounced"
COMPLAINED == "complained"
\* a document without a status field (legacy subscription path)
NOSTATUS == "nostatus"

Statuses == {PENDING, CONFIRMED, UNSUBSCRIBED, BOUNCED, COMPLAINED}

CONFIRMATION_TOKEN_EXPIRY_HOURS == 48
UNSUBSCRIBE_TOKEN_EXPIRY_DAYS == 365

\* the payload of a signed token; the instants are counted in hours
NoToken == [email |-> "", type |-> "", exp |-> 0, iat |-> 0]

\* a variant whose token expires a day after it was issued
generate_confirmation_token_one_day(email, t) ==
    [email |-> Lower(email), type |-> "confirmation", exp |-> t + 24, iat |-> t]

generate_confirmation_token(email, t) ==
    [email |-> Lower(email), type |-> "confirmation",
     exp |-> t + CONFIRMATION_TOKEN_EXPIRY_HOURS, iat |-> t]

generate_unsubscribe_token(email, t) ==
    [email |-> Lower(email), type |-> "unsubscribe",
     exp |-> t + UNSUBSCRIBE_TOKEN_EXPIRY_DAYS * 24, iat |-> t]

\* a variant that does not compare the type claim
verify_token_any_type(token, expected_type, t) ==
    IF token = NoToken THEN ""
    ELSE IF t > token.exp THEN ""
    ELSE token.email

\* jwt.decode checks the expiry, then the type claim is compared; "" is None
verify_token(token, expected_type, t) ==
    IF token = NoToken THEN ""
    ELSE IF t > token.exp THEN ""
    ELSE IF token.type # expected_type THEN ""
    ELSE token.email

verify_confirmation_token(token, t) == verify_token(token, "confirmation", t)

verify_unsubscribe_token(token, t) == verify_token(token, "unsubscribe", t)

----------------------------------------------------------------------------
(* Documents and the repository *)

NoDoc ==
    [email |-> "", status |-> "absent", promo_code |-> "",
     confirmed_at |-> 0, unsubscribed_at |-> 0, unsubscribe_reason |-> "",
     emails_sent |-> 0, confirmation_token |-> NoToken,
     unsubscribe_token |-> NoToken, promo_used |-> FALSE]

\* the document subscribe_to_newsletter hands to SubscriberRepository.create
NewSubscriber(email, ctok, utok) ==
    [NoDoc EXCEPT !.email = email, !.status = PENDING,
                  !.confirmation_token = ctok, !.unsubscribe_token = utok]

\* the document create_subscription inserts: email and promo code only
LegacySubscription(email, promo) ==
    [NoDoc EXCEPT !.email = Lower(email), !.status = NOSTATUS,
                  !.promo_code = promo]

\* index of the first document with this email, 0 when there is none
IndexOf(s, email) ==
    IF \E i \in 1..Len(s) : s[i].email = email
    THEN CHOOSE i \in 1..Len(s) :
            /\ s[i].email = email
            /\ \A j \in 1..(i - 1) : s[j].email # email
    ELSE 0

get_by_email(s, email) ==
    IF IndexOf(s, Lower(email)) = 0 THEN NoDoc
    ELSE s[IndexOf(s, Lower(email))]

\* {"$set": update_data} applied to a document
SetFields(d, update_data) ==
    [f \in DOMAIN d |-> IF f \in DOMAIN update_data THEN update_data[f] ELSE d[f]]

\* update_one({"email": email.lower()}, {"$set": update_data}); ok is
\* modified_count > 0
update(s, email, update_data) ==
    LET i == IndexOf(s, Lower(email)) IN
    IF i = 0 THEN [store |-> s, ok |-> FALSE]
    ELSE [store |-> [s EXCEPT ![i] = SetFields(s[i], update_data)],
          ok |-> SetFields(s[i], update_data) # s[i]]

confirm(s, email, promo_code, t) ==
    update(s, email,
           [status |-> CONFIRMED, confirmed_at |-> t, promo_code |-> promo_code])

\* the reason is part of the update only when one is given
unsubscribe(s, email, reason, t) ==
    update(s, email,
           IF reason # ""
           THEN [status |-> UNSUBSCRIBED, unsubscribed_at |-> t,
                 unsubscribe_reason |-> reason]
           ELSE [status |-> UNSUBSCRIBED, unsubscribed_at |-> t])

mark_bounced(s, email) == update(s, email, [status |-> BOUNCED])

mark_complained(s, email) == update(s, email, [status |-> COMPLAINED])

\* increment_email_stats(email, sent=True): {"$inc": {"emails_sent": 1}};
\* last_email_sent_at is not modelled
increment_email_stats(s, email) ==
    update(s, email, [emails_sent |-> get_by_email(s, email).emails_sent + 1])

\* a variant that filters on "not unsubscribed" instead of "confirmed"
get_subscribers_not_unsubscribed(s) ==
    SelectSeq(s, LAMBDA d : d.status # UNSUBSCRIBED)

\* get_active_subscribers(): find({"status": "confirmed"})
get_active_subscribers(s) == SelectSeq(s, LAMBDA d : d.status = CONFIRMED)

----------------------------------------------------------------------------
(* Workers *)

\* outcome of a call to the MailerLite API (mailerlite_client._request):
\* a parsed answer, None (no API key, or HTTP 404), or MailerLiteError
ProviderOutcomes == {"ok", "none", "raise"}

\* a subscriber of the MailerLite account: its status ("absent" when the
\* account has none for the address) and the opt-in mails sent to it
NoMl == [status |-> "absent", optin_mails |-> 0]

\* what a provider call leaves behind: its effect when the API answered
Provider(out, effect) == IF out = "ok" THEN effect ELSE ml

\* ensure_newsletter_subscriber: an absent subscriber is created as
\* unconfirmed; an unsubscribed or unconfirmed one is deleted and created
\* again; the account sends its opt-in mail to a created subscriber
ensure_newsletter_subscriber(m, email) ==
    IF m[email].status = "active" THEN m
    ELSE [m EXCEPT ![email] = [status |-> "unconfirmed",
                               optin_mails |-> @.optin_mails + 1]]

mark_subscriber_confirmed(m, email) ==
    IF m[email].status = "absent" THEN m
    ELSE [m EXCEPT ![email].status = "active"]

mark_subscriber_unsubscribed(m, email) ==
    IF m[email].status = "absent" THEN m
    ELSE [m EXCEPT ![email].status = "unsubscribed"]

\* the opt-in mail counter is kept below its bound
MayMail(email, out) ==
    (out = "ok" /\ ml[email].status # "active") => ml[email].optin_mails < MaxMails

MlStatuses == {"active", "unconfirmed", "unsubscribed", "bounced", "junk"}

\* the event types the webhook is registered for (lines 26-32)
MlEventTypes ==
    {"subscriber.created", "subscriber.updated", "subscriber.unsubscribed",
     "subscriber.complaint", "subscriber.bounced", "subscriber.double_opt_in"}

\* an event type of the provider the webhook does not know
OtherEventTypes == {"subscriber.added_to_group"}

\* one event of a webhook payload; email "" is a missing email
MlEvents ==
    [type : MlEventTypes \cup OtherEventTypes, email : RawEmails \cup {""},
     status : MlStatuses]

\* one subscriber of the provider's group listing
MlSubscribers == [email : RawEmails \cup {""}, status : MlStatuses]

\* reason of POST /unsubscribe: optional free text
Reasons == {"", "trop de mails"}

Idle ==
    [pc |-> "idle", op |-> "", email |-> "", w |-> "", promo |-> "",
     reason |-> "", left |-> 0, iat |-> 0, type |-> ""]

NoResp == [op |-> "", code |-> 0, kind |-> "", email |-> "", promo |-> ""]

\* what a finished request answered: the HTTP status, which answer of the
\* handler it is, and the promo code it carries
Response(op, code, kind, email, promo) ==
    [op |-> op, code |-> code, kind |-> kind, email |-> email, promo |-> promo]

Finish(p, r) ==
    /\ proc' = [proc EXCEPT ![p] = Idle]
    /\ resp' = [resp EXCEPT ![p] = r]

Continue(p, st) ==
    /\ proc' = [proc EXCEPT ![p] = st]
    /\ resp' = [resp EXCEPT ![p] = NoResp]

----------------------------------------------------------------------------
(* POST /subscribe: subscribe_to_newsletter *)

\* lines 60-111: consent check, lookup, branches on the existing status,
\* token generation; out is the outcome of ensure_newsletter_subscriber
SubscribeBegin(p, raw, consent, out) ==
    /\ proc[p].pc = "idle"
    /\ UNCHANGED <<store, now, disp, groups, catalog>>
    /\ LET email == Lower(raw)
           existing == get_by_email(store, email)
           R(code, kind) ==
               Response("subscribe", code, kind, email, "")
           resend == consent /\ existing # NoDoc /\ existing.status = PENDING
       IN
       /\ resend => MayMail(email, out)
       /\ ml' = IF resend THEN Provider(out, ensure_newsletter_subscriber(ml, email))
                 ELSE ml
       /\ IF ~consent
          THEN Finish(p, R(400, "consent"))
          ELSE IF existing # NoDoc /\ existing.status = CONFIRMED
          THEN Finish(p, R(409, "conflict"))
          ELSE IF existing # NoDoc /\ existing.status = UNSUBSCRIBED
          \* client_ip is read at line 86 before its assignment at line 106:
          \* UnboundLocalError while the update document is built, no update
          THEN Finish(p, R(500, "unbound_local"))
          ELSE IF existing # NoDoc /\ existing.status = PENDING
          THEN Finish(p, IF out = "raise" THEN R(500, "provider_error")
                                          ELSE R(200, "resent"))
          \* lines 110-111: the tokens are generated at this instant
          ELSE Continue(p, [Idle EXCEPT !.pc = "sub_check", !.op = "subscribe",
                                      !.email = email, !.iat = now])

\* SubscriberRepository.create, lines 53-59: the repository's own lookup
SubscribeCreateCheck(p) ==
    /\ proc[p].pc = "sub_check"
    /\ UNCHANGED <<store, now, disp, ml, groups, catalog>>
    /\ IF get_by_email(store, proc[p].email) # NoDoc
       THEN Finish(p, Response("subscribe", 500, "create_failed", proc[p].email, ""))
       ELSE Continue(p, [proc[p] EXCEPT !.pc = "sub_insert"])

\* SubscriberRepository.create, line 64, then lines 127-150 of the handler
SubscribeInsert(p, out) ==
    /\ proc[p].pc = "sub_insert"
    /\ store' = Append(store,
                       NewSubscriber(proc[p].email,
                                     generate_confirmation_token(proc[p].email, proc[p].iat),
                                     generate_unsubscribe_token(proc[p].email, proc[p].iat)))
    /\ UNCHANGED <<now, disp, groups, catalog>>
    /\ MayMail(proc[p].email, out)
    /\ ml' = Provider(out, ensure_newsletter_subscriber(ml, proc[p].email))
    /\ Finish(p, Response("subscribe",
                          IF out = "raise" THEN 500 ELSE 200,
                          IF out = "raise" THEN "provider_error" ELSE "pending",
                          proc[p].email, ""))

----------------------------------------------------------------------------
(* POST / of api/subscribe.py: the legacy subscription path *)

LegacySubscribeBegin(p, raw, promo) ==
    /\ proc[p].pc = "idle"
    /\ UNCHANGED <<store, now, disp, ml, groups, catalog>>
    /\ LET email == Lower(raw)
           existing == get_by_email(store, email)
       IN
       IF existing # NoDoc
       THEN Finish(p, Response("legacy_subscribe", 409, "conflict", email, ""))
       ELSE Continue(p, [Idle EXCEPT !.pc = "leg_insert", !.op = "legacy_subscribe",
                                     !.email = email, !.promo = promo])

\* create_subscription: insert_one without any check
LegacySubscribeInsert(p) ==
    /\ proc[p].pc = "leg_insert"
    /\ store' = Append(store, LegacySubscription(proc[p].email, proc[p].promo))
    /\ UNCHANGED <<now, disp, ml, groups, catalog>>
    /\ Finish(p, Response("legacy_subscribe", 200, "subscribed", proc[p].email,
                          proc[p].promo))

----------------------------------------------------------------------------
(* GET /confirm: confirm_subscription *)

\* lines 171-200: token check, lookup, already-confirmed branch, new code
ConfirmBegin(p, token, promo) ==
    /\ proc[p].pc = "idle"
    /\ UNCHANGED <<store, now, disp, ml, groups, catalog>>
    /\ LET email == verify_confirmation_token(token, now)
           subscriber == get_by_email(store, email)
           R(kind, code) ==
               Response("confirm_token", 302, kind, email, code)
       IN
       /\ Draws(promo, email # "" /\ subscriber # NoDoc
                           /\ subscriber.status # CONFIRMED)
       /\ IF email = ""
          THEN Finish(p, R("invalid_token", ""))
          ELSE IF subscriber = NoDoc
          THEN Finish(p, R("not_found", ""))
          ELSE IF subscriber.status = CONFIRMED
          THEN Finish(p, R("already", subscriber.promo_code))
          ELSE Continue(p, [Idle EXCEPT !.pc = "confirm_write", !.op = "confirm_token",
                                        !.email = email, !.w = "confirm",
                                        !.promo = promo])

\* lines 203-220: SubscriberRepository.confirm, then mark_subscriber_confirmed
\* whose outcome is out
ConfirmWrite(p, out) ==
    /\ proc[p].pc = "confirm_write"
    /\ now <= MaxTime
    /\ LET r == confirm(store, proc[p].email, proc[p].promo, now)
           R(code, kind, promo) ==
               Response("confirm_token", code, kind, proc[p].email, promo)
       IN
       /\ store' = r.store
       /\ now' = now + 1
       /\ UNCHANGED <<disp, groups, catalog>>
       /\ ml' = IF r.ok
                 THEN Provider(out, mark_subscriber_confirmed(ml, proc[p].email))
                 ELSE ml
       /\ Finish(p, IF ~r.ok THEN R(302, "update_failed", "")
                    ELSE IF out = "raise" THEN R(500, "provider_error", "")
                    ELSE R(302, "confirmed", proc[p].promo))

----------------------------------------------------------------------------
(* POST /unsubscribe: unsubscribe_from_newsletter *)

UnsubscribeBegin(p, token, reason) ==
    /\ proc[p].pc = "idle"
    /\ UNCHANGED <<store, now, disp, ml, groups, catalog>>
    /\ LET email == verify_unsubscribe_token(token, now)
           subscriber == get_by_email(store, email)
           R(code, kind) ==
               Response("unsubscribe", code, kind, email, "")
       IN
       IF email = ""
       THEN Finish(p, R(400, "invalid_token"))
       ELSE IF subscriber = NoDoc
       THEN Finish(p, R(404, "not_found"))
       ELSE Continue(p, [Idle EXCEPT !.pc = "unsub_write", !.op = "unsubscribe",
                                     !.email = email, !.w = "unsubscribe",
                                     !.reason = reason])

\* lines 253-269: SubscriberRepository.unsubscribe, then
\* mark_subscriber_unsubscribed whose outcome is out
UnsubscribeWrite(p, out) ==
    /\ proc[p].pc = "unsub_write"
    /\ now <= MaxTime
    /\ LET r == unsubscribe(store, proc[p].email, proc[p].reason, now)
           R(code, kind) ==
               Response("unsubscribe", code, kind, proc[p].email, "")
       IN
       /\ store' = r.store
       /\ now' = now + 1
       /\ UNCHANGED <<disp, groups, catalog>>
       /\ ml' = IF r.ok
                 THEN Provider(out, mark_subscriber_unsubscribed(ml, proc[p].email))
                 ELSE ml
       /\ Finish(p, IF ~r.ok THEN R(500, "update_failed")
                    ELSE IF out = "raise" THEN R(500, "provider_error")
                    ELSE R(200, "unsubscribed"))

\* GET /unsubscribe (unsubscribe_get): the token is checked and the visitor
\* sent to the front-end page that will post it; nothing is written
UnsubscribeGet(p, token) ==
    /\ proc[p].pc = "idle"
    /\ UNCHANGED <<store, now, disp, ml, groups, catalog>>
    /\ LET email == verify_unsubscribe_token(token, now) IN
       Finish(p, Response("unsubscribe_get", 302,
                          IF email = "" THEN "invalid_unsubscribe_token"
                                        ELSE "unsubscribe_page",
                          email, ""))

----------------------------------------------------------------------------
(* Database writes decided by the webhooks and by the reconciliation script *)

\* the repository call a worker has decided on, applied at instant t
ApplyWrite(s, st, t) ==
    IF st.w = "confirm" THEN confirm(s, st.email, st.promo, t)
    ELSE IF st.w = "unsubscribe" THEN unsubscribe(s, st.email, st.reason, t)
    ELSE IF st.w = "bounced" THEN mark_bounced(s, st.email)
    ELSE IF st.w = "sent" THEN increment_email_stats(s, st.email)
    ELSE mark_complained(s, st.email)

\* confirm and unsubscribe read datetime.utcnow()
Stamps(w) == w \in {"confirm", "unsubscribe"}

----------------------------------------------------------------------------
(* POST /subscriber-updated: mailerlite_webhook_subscriber_updated *)

\* lines 50-60: the payload is read and the signature header compared; n is
\* the number of events, authentic is FALSE when a secret is configured and
\* the header differs from it. The HTTPException(401) of line 58 is raised
\* inside the try block and caught by the except clause of line 109, which
\* raises HTTPException(500)
WebhookBegin(p, n, authentic) ==
    /\ proc[p].pc = "idle"
    /\ UNCHANGED <<store, now, disp, ml, groups, catalog>>
    /\ IF ~authentic
       THEN Finish(p, Response("webhook", 500, "invalid_signature", "", ""))
       ELSE Continue(p, [Idle EXCEPT !.pc = "wh_loop", !.op = "webhook",
                                     !.left = n])

\* lines 63-68 for an event whose data or subscriber field is null or not an
\* object: .get raises AttributeError, caught at line 109
WebhookMalformed(p) ==
    /\ proc[p].pc = "wh_loop"
    /\ proc[p].left > 0
    /\ UNCHANGED <<store, now, disp, ml, groups, catalog>>
    /\ Finish(p, Response("webhook", 500, "error", "", ""))

\* a variant that confirms on an opt-in event without looking at the status
WebhookDecisionUnguarded(event, existing) ==
    IF event.type = "subscriber.double_opt_in" \/ event.status = "active"
    THEN "confirm"
    ELSE IF event.type = "subscriber.unsubscribed" \/ event.status = "unsubscribed"
    THEN (IF existing.status # UNSUBSCRIBED THEN "unsubscribe" ELSE "")
    ELSE IF event.type = "subscriber.bounced" \/ event.status = "bounced"
    THEN "bounced"
    ELSE IF event.type = "subscriber.complaint" \/ event.status = "junk"
    THEN "complained"
    ELSE ""

\* the write the webhook decides on for one event, "" for none (lines 82-105)
WebhookDecision(event, existing) ==
    IF event.type = "subscriber.double_opt_in" \/ event.status = "active"
    THEN (IF existing.status # CONFIRMED THEN "confirm" ELSE "")
    ELSE IF event.type = "subscriber.unsubscribed" \/ event.status = "unsubscribed"
    THEN (IF existing.status # UNSUBSCRIBED THEN "unsubscribe" ELSE "")
    ELSE IF event.type = "subscriber.bounced" \/ event.status = "bounced"
    THEN "bounced"
    ELSE IF event.type = "subscriber.complaint" \/ event.status = "junk"
    THEN "complained"
    ELSE ""

\* lines 62-90 for one event of the batch: lookup and decision; promo is the
\* code secrets.token_hex would give
WebhookEvent(p, event, promo) ==
    /\ proc[p].pc = "wh_loop"
    /\ proc[p].left > 0
    /\ UNCHANGED <<store, now, disp, ml, groups, catalog>>
    /\ LET existing == get_by_email(store, event.email)
           skip == [proc[p] EXCEPT !.left = @ - 1]
           w == WebhookDecision(event, existing)
       IN
       /\ Draws(promo, event.email # "" /\ existing # NoDoc /\ w = "confirm"
                           /\ existing.promo_code = "")
       /\ IF event.email = "" \/ existing = NoDoc \/ w = ""
          THEN Continue(p, skip)
          ELSE Continue(p, [proc[p] EXCEPT
                              !.pc = "wh_write", !.email = Lower(event.email), !.w = w,
                              !.type = event.type,
                              !.promo = IF w # "confirm" THEN ""
                                        ELSE IF existing.promo_code # ""
                                        THEN existing.promo_code ELSE promo,
                              !.reason = IF w = "unsubscribe"
                                         THEN "Unsubscribed via MailerLite" ELSE ""])

\* lines 91, 96, 100, 104: the repository call of the event
WebhookWrite(p) ==
    /\ proc[p].pc = "wh_write"
    /\ Stamps(proc[p].w) => now <= MaxTime
    /\ store' = ApplyWrite(store, proc[p], now).store
    /\ now' = IF Stamps(proc[p].w) THEN now + 1 ELSE now
    /\ UNCHANGED <<disp, ml, groups, catalog>>
    /\ Continue(p, [Idle EXCEPT !.pc = "wh_loop", !.op = "webhook",
                                 !.left = proc[p].left - 1])

\* line 107
WebhookEnd(p) ==
    /\ proc[p].pc = "wh_loop"
    /\ proc[p].left = 0
    /\ UNCHANGED <<store, now, disp, ml, groups, catalog>>
    /\ Finish(p, Response("webhook", 200, "processed", "", ""))

----------------------------------------------------------------------------
(* POST / of mailjet_webhooks.py: handle_mailjet_webhook *)

\* EVENT_TYPES, lines 17-25
MjEventTypes == {"bounce", "blocked", "spam", "unsub", "sent", "open", "click"}

\* one event of the payload; "other" is a type outside EVENT_TYPES, email ""
\* a missing or empty email
MjEvents ==
    [event : MjEventTypes \cup {"other"}, email : RawEmails \cup {""},
     hard_bounce : BOOLEAN]

\* lines 56-62: is_list is FALSE when the payload is not a list; the
\* HTTPException(400) of line 60 is caught at line 70 and becomes a 500
MailjetBegin(p, n, is_list) ==
    /\ proc[p].pc = "idle"
    /\ UNCHANGED <<store, now, disp, ml, groups, catalog>>
    /\ IF ~is_list
       THEN Finish(p, Response("mailjet", 500, "invalid_payload", "", ""))
       ELSE Continue(p, [Idle EXCEPT !.pc = "mj_loop", !.op = "mailjet",
                                     !.left = n])

\* the repository call process_mailjet_event decides on (lines 99-114 and
\* the handle_* functions), "" for none; the opened and clicked counters of
\* handle_open and handle_click are not modelled
MailjetDecision(event) ==
    IF event.event = "bounce" THEN (IF event.hard_bounce THEN "bounced" ELSE "")
    ELSE IF event.event = "blocked" THEN "bounced"
    ELSE IF event.event = "spam" THEN "complained"
    ELSE IF event.event = "unsub" THEN "unsubscribe"
    ELSE IF event.event = "sent" THEN "sent"
    ELSE ""

\* process_mailjet_event, lines 82-98, for one event: lookup and decision
MailjetEvent(p, event) ==
    /\ proc[p].pc = "mj_loop"
    /\ proc[p].left > 0
    /\ UNCHANGED <<store, now, disp, ml, groups, catalog>>
    /\ LET subscriber == get_by_email(store, event.email)
           w == MailjetDecision(event)
       IN
       IF event.email = "" \/ subscriber = NoDoc \/ w = ""
       THEN Continue(p, [proc[p] EXCEPT !.left = @ - 1])
       ELSE Continue(p, [proc[p] EXCEPT
                           !.pc = "mj_write", !.email = Lower(event.email), !.w = w,
                           !.type = event.event,
                           \* "Désinscription via lien Mailjet" at line 172
                           !.reason = IF w = "unsubscribe"
                                      THEN "Desinscription via lien Mailjet" ELSE ""])

\* lines 82-83 for an event that is not an object or whose email is null:
\* AttributeError, caught at line 70
MailjetMalformed(p) ==
    /\ proc[p].pc = "mj_loop"
    /\ proc[p].left > 0
    /\ UNCHANGED <<store, now, disp, ml, groups, catalog>>
    /\ Finish(p, Response("mailjet", 500, "error", "", ""))

\* the repository call of handle_bounce, handle_blocked, handle_spam,
\* handle_unsub or handle_sent
MailjetWrite(p) ==
    /\ proc[p].pc = "mj_write"
    /\ Stamps(proc[p].w) => now <= MaxTime
    /\ proc[p].w = "sent" => get_by_email(store, proc[p].email).emails_sent < MaxSent
    /\ store' = ApplyWrite(store, proc[p], now).store
    /\ now' = IF Stamps(proc[p].w) THEN now + 1 ELSE now
    /\ UNCHANGED <<disp, ml, groups, catalog>>
    /\ Continue(p, [Idle EXCEPT !.pc = "mj_loop", !.op = "mailjet",
                                 !.left = proc[p].left - 1])

\* line 68
MailjetEnd(p) ==
    /\ proc[p].pc = "mj_loop"
    /\ proc[p].left = 0
    /\ UNCHANGED <<store, now, disp, ml, groups, catalog>>
    /\ Finish(p, Response("mailjet", 200, "processed", "", ""))

----------------------------------------------------------------------------
(* scripts/sync_mailerlite_status.py: sync_mailerlite_to_db *)

\* lines 32-40: ensure_group and list_group_subscribers; out is the outcome of
\* the provider, n the length of the listing
SyncBegin(p, out, n) ==
    /\ proc[p].pc = "idle"
    /\ UNCHANGED <<store, now, disp, ml, groups, catalog>>
    /\ IF out = "raise"
       THEN Finish(p, Response("sync", 500, "provider_error", "", ""))
       ELSE IF out = "none"
       THEN Finish(p, Response("sync", 0, "no_group", "", ""))
       ELSE Continue(p, [Idle EXCEPT !.pc = "sync_loop", !.op = "sync", !.left = n])

\* a variant that never takes the provider's "active" for a confirmation
SyncDecisionNoConfirm(ml_status, db_status) ==
    IF ml_status = "unsubscribed" /\ db_status # UNSUBSCRIBED THEN "unsubscribe"
    ELSE IF ml_status = "bounced" /\ db_status # BOUNCED THEN "bounced"
    ELSE IF ml_status = "junk" /\ db_status # COMPLAINED THEN "complained"
    ELSE ""

\* the write the script decides on for one provider subscriber (lines 62-86)
SyncDecision(ml_status, db_status) ==
    IF ml_status = "active" /\ db_status # CONFIRMED THEN "confirm"
    ELSE IF ml_status = "unsubscribed" /\ db_status # UNSUBSCRIBED THEN "unsubscribe"
    ELSE IF ml_status = "bounced" /\ db_status # BOUNCED THEN "bounced"
    ELSE IF ml_status = "junk" /\ db_status # COMPLAINED THEN "complained"
    ELSE ""

\* lines 45-66 for one subscriber of the listing
SyncItem(p, ml_subscriber, promo) ==
    /\ proc[p].pc = "sync_loop"
    /\ proc[p].left > 0
    /\ UNCHANGED <<store, now, disp, ml, groups, catalog>>
    /\ LET db_subscriber == get_by_email(store, ml_subscriber.email)
           skip == [proc[p] EXCEPT !.left = @ - 1]
           w == SyncDecision(ml_subscriber.status, db_subscriber.status)
       IN
       /\ Draws(promo, ml_subscriber.email # "" /\ db_subscriber # NoDoc
                           /\ w = "confirm" /\ db_subscriber.promo_code = "")
       /\ IF ml_subscriber.email = "" \/ db_subscriber = NoDoc \/ w = ""
          THEN Continue(p, skip)
          ELSE Continue(p, [proc[p] EXCEPT
                              !.pc = "sync_write", !.email = Lower(ml_subscriber.email),
                              !.w = w,
                              !.promo = IF w # "confirm" THEN ""
                                        ELSE IF db_subscriber.promo_code # ""
                                        THEN db_subscriber.promo_code ELSE promo,
                              !.reason = IF w = "unsubscribe"
                                         THEN "Synced from MailerLite" ELSE ""])

\* lines 68, 74, 79, 84
SyncWrite(p) ==
    /\ proc[p].pc = "sync_write"
    /\ Stamps(proc[p].w) => now <= MaxTime
    /\ store' = ApplyWrite(store, proc[p], now).store
    /\ now' = IF Stamps(proc[p].w) THEN now + 1 ELSE now
    /\ UNCHANGED <<disp, ml, groups, catalog>>
    /\ Continue(p, [Idle EXCEPT !.pc = "sync_loop", !.op = "sync",
                                 !.left = proc[p].left - 1])

\* lines 88-93
SyncEnd(p) ==
    /\ proc[p].pc = "sync_loop"
    /\ proc[p].left = 0
    /\ UNCHANGED <<store, now, disp, ml, groups, catalog>>
    /\ Finish(p, Response("sync", 0, "synced", "", ""))

----------------------------------------------------------------------------
(* scripts/sync_subscribers.py: sync_subscribers *)

\* lines 34-41 and 97-99: the collection is read, then ensure_group and
\* list_group_subscribers are called; out is the outcome of the provider. A
\* MailerLiteError ends the script; without an answer the listing is empty.
\* With --dry-run the script stops after printing its plan.
SyncSubscribersBegin(p, out, dry_run) ==
    /\ proc[p].pc = "idle"
    /\ UNCHANGED <<store, now, disp, ml, groups, catalog>>
    /\ IF out = "raise"
       THEN Finish(p, Response("sync_subscribers", 500, "provider_error", "", ""))
       ELSE IF dry_run
       THEN Finish(p, Response("sync_subscribers", 0, "dry_run", "", ""))
       ELSE Continue(p, [Idle EXCEPT !.pc = "push_loop", !.op = "sync_subscribers",
                                     !.w = IF out = "ok" THEN "listed" ELSE "unlisted",
                                     !.left = Len(store)])

\* what the script does on the provider side for one local record: a record
\* that is not in the listing is added with ensure_newsletter_subscriber
\* (lines 106-119) and made active when it is confirmed; a confirmed record
\* whose provider subscriber is not active is made active (lines 124-129)
SyncSubscribersEffect(m, sub, listed) ==
    IF ~listed \/ m[sub.email].status = "absent"
    THEN (IF sub.status = CONFIRMED
          THEN mark_subscriber_confirmed(ensure_newsletter_subscriber(m, sub.email),
                                         sub.email)
          ELSE ensure_newsletter_subscriber(m, sub.email))
    ELSE IF sub.status = CONFIRMED /\ m[sub.email].status # "active"
    THEN mark_subscriber_confirmed(m, sub.email)
    ELSE m

\* one record of the collection; out is the outcome of the provider calls
\* made for it, a MailerLiteError being caught at lines 120 and 130
SyncSubscribersItem(p, out) ==
    /\ proc[p].pc = "push_loop"
    /\ proc[p].left > 0
    /\ LET sub == store[Len(store) - proc[p].left + 1] IN
       /\ MayMail(sub.email, out)
       /\ ml' = Provider(out, SyncSubscribersEffect(ml, sub, proc[p].w = "listed"))
    /\ UNCHANGED <<store, now, disp, groups, catalog>>
    /\ Continue(p, [proc[p] EXCEPT !.left = @ - 1])

\* lines 143-145
SyncSubscribersEnd(p) ==
    /\ proc[p].pc = "push_loop"
    /\ proc[p].left = 0
    /\ UNCHANGED <<store, now, disp, ml, groups, catalog>>
    /\ Finish(p, Response("sync_subscribers", 0, "synced", "", ""))

----------------------------------------------------------------------------
(* mailerlite_client.ensure_group *)

\* lines 85-88: list_groups and the search by name; out is the outcome of GET
\* /groups, without an answer the list is empty. The answer carries the id
\* of the first group of the name, groups being numbered as they are created
EnsureGroupList(p, out) ==
    /\ proc[p].pc = "idle"
    /\ UNCHANGED <<store, now, disp, ml, groups, catalog>>
    /\ IF out = "raise"
       THEN Finish(p, Response("ensure_group", 0, "provider_error", "", ""))
       ELSE IF out = "ok" /\ groups > 0
       THEN Finish(p, Response("ensure_group", 1, "group", "", ""))
       ELSE Continue(p, [Idle EXCEPT !.pc = "grp_create", !.op = "ensure_group"])

\* lines 90-93: POST /groups, whose outcome is out
EnsureGroupCreate(p, out) ==
    /\ proc[p].pc = "grp_create"
    /\ out = "ok" => groups < MaxGroups
    /\ groups' = IF out = "ok" THEN groups + 1 ELSE groups
    /\ UNCHANGED <<store, now, disp, ml, catalog>>
    /\ Finish(p, IF out = "ok" THEN Response("ensure_group", groups + 1, "group", "", "")
                 ELSE IF out = "none" THEN Response("ensure_group", 0, "none", "", "")
                 ELSE Response("ensure_group", 0, "provider_error", "", ""))

\* calls of ensure_group by the workers W
EnsureGroupCalls(W) ==
    \/ \E p \in W, out \in ProviderOutcomes : EnsureGroupList(p, out)
    \/ \E p \in W, out \in ProviderOutcomes : EnsureGroupCreate(p, out)

----------------------------------------------------------------------------
(* GET /check-subscriber/{email} and POST /mark-promo-used/{email} *)

\* check_subscriber_status, lines 305-351: kind "discount" is discount 10
\* with the record's promo code, "used" and "none" are discount 0 and no code
CheckSubscriber(p, raw) ==
    /\ proc[p].pc = "idle"
    /\ UNCHANGED <<store, now, disp, ml, groups, catalog>>
    /\ LET clean_email == Lower(raw)
           subscriber == get_by_email(store, clean_email)
           R(kind, promo) ==
               Response("check_subscriber", 200, kind, clean_email, promo)
       IN
       IF subscriber = NoDoc
       THEN Finish(p, R("none", ""))
       ELSE IF subscriber.status = CONFIRMED
       THEN IF subscriber.promo_used
            THEN Finish(p, R("used", ""))
            ELSE Finish(p, R("discount", subscriber.promo_code))
       ELSE Finish(p, R("none", ""))

\* mark_promo_as_used, lines 354-382: the module imports no datetime
\* (lines 6-32), so building the update document at line 372 raises
\* NameError before subscriber_repo.update is called: 500, nothing written
MarkPromoUsed(p, raw) ==
    /\ proc[p].pc = "idle"
    /\ UNCHANGED <<store, now, disp, ml, groups, catalog>>
    /\ LET clean_email == Lower(raw)
           subscriber == get_by_email(store, clean_email)
           R(code, kind) ==
               Response("mark_promo_used", code, kind, clean_email, "")
       IN
       IF subscriber = NoDoc
       THEN Finish(p, R(404, "not_found"))
       ELSE Finish(p, R(500, "name_error"))

PromoRequests(W) ==
    \/ \E p \in W, raw \in RawEmails : CheckSubscriber(p, raw)
    \/ \E p \in W, raw \in RawEmails : MarkPromoUsed(p, raw)

----------------------------------------------------------------------------
(* Catalog mutations of the admin: api/artworks.py and app/routes/events.py *)

ArtworkIds == {"a1", "a2"}
EventIds == {"e1", "e2"}

NoAnswer == [op |-> "", code |-> 0, id |-> ""]

\* the artworks and events collections, the tasks added to BackgroundTasks,
\* and the answer of the last admin request
NoCatalog == [artworks |-> {}, events |-> {}, tasks |-> <<>>, answer |-> NoAnswer]

Answer(op, code, id) == [op |-> op, code |-> code, id |-> id]

\* create_artwork, lines 138-147: insert, read back, add_task, answer;
\* inserted is FALSE when insert_one fails
CreateArtwork(a, inserted) ==
    /\ a \notin catalog.artworks
    /\ inserted => Len(catalog.tasks) < MaxTasks
    /\ UNCHANGED <<store, now, proc, resp, disp, ml, groups>>
    /\ catalog' =
          IF inserted
          THEN [catalog EXCEPT
                   !.artworks = @ \cup {a},
                   !.tasks = Append(@, [kind |-> "new_artwork", id |-> a]),
                   !.answer = Answer("create_artwork", 200, a)]
          ELSE [catalog EXCEPT !.answer = Answer("create_artwork", 500, a)]

\* delete_artwork, lines 271-285: read, delete, add_task, answer
DeleteArtwork(a) ==
    /\ a \in catalog.artworks => Len(catalog.tasks) < MaxTasks
    /\ UNCHANGED <<store, now, proc, resp, disp, ml, groups>>
    /\ catalog' =
          IF a \in catalog.artworks
          THEN [catalog EXCEPT
                   !.artworks = @ \ {a},
                   !.tasks = Append(@, [kind |-> "removed_artwork", id |-> a]),
                   !.answer = Answer("delete_artwork", 200, a)]
          ELSE [catalog EXCEPT !.answer = Answer("delete_artwork", 404, a)]

\* create_event_endpoint, lines 40-42: insert and answer; no task is added
CreateEvent(e, inserted) ==
    /\ e \notin catalog.events
    /\ UNCHANGED <<store, now, proc, resp, disp, ml, groups>>
    /\ catalog' =
          IF inserted
          THEN [catalog EXCEPT !.events = @ \cup {e},
                               !.answer = Answer("create_event", 200, e)]
          ELSE [catalog EXCEPT !.answer = Answer("create_event", 500, e)]

----------------------------------------------------------------------------
(* The subscriber lifecycle *)

\* the tokens a visitor can present: those stored with a subscriber, which
\* the confirmation and notification mails carry, or a token that does not
\* decode
Presentable(s) ==
    {s[i].confirmation_token : i \in 1..Len(s)}
        \cup {s[i].unsubscribe_token : i \in 1..Len(s)} \cup {NoToken}

NoDispatch ==
    [pc |-> "idle", kind |-> "", template |-> FALSE, subscribers |-> <<>>,
     i |-> 0, sent_count |-> 0, errors |-> <<>>, delivered |-> {},
     calls |-> 0, inbox |-> {}]

Init ==
    /\ store = <<>>
    /\ now = 1
    /\ proc = [p \in Procs |-> Idle]
    /\ resp = [p \in Procs |-> NoResp]
    /\ disp = NoDispatch
    /\ ml = [e \in Emails |-> NoMl]
    /\ groups = 1
    /\ catalog = NoCatalog

\* requests of the subscribe endpoints by the workers W
SubscribeRequests(W) ==
    \/ \E p \in W, raw \in RawEmails, consent \in BOOLEAN, out \in ProviderOutcomes :
          SubscribeBegin(p, raw, consent, out)
    \/ \E p \in W : SubscribeCreateCheck(p)
    \/ \E p \in W, out \in ProviderOutcomes : SubscribeInsert(p, out)
    \/ \E p \in W, raw \in RawEmails, promo \in PromoCodes :
          LegacySubscribeBegin(p, raw, promo)
    \/ \E p \in W : LegacySubscribeInsert(p)

\* visits of GET /confirm by the workers W
ConfirmRequests(W) ==
    \/ \E p \in W, token \in Presentable(store), promo \in PromoCodes :
          ConfirmBegin(p, token, promo)
    \/ \E p \in W, out \in ProviderOutcomes : ConfirmWrite(p, out)

UnsubscribeRequests(W) ==
    \/ \E p \in W, token \in Presentable(store), reason \in Reasons :
          UnsubscribeBegin(p, token, reason)
    \/ \E p \in W, out \in ProviderOutcomes : UnsubscribeWrite(p, out)
    \/ \E p \in W, token \in Presentable(store) : UnsubscribeGet(p, token)

\* webhook batches with events of E handled by the workers W
WebhookRequests(W, E) ==
    \/ \E p \in W, n \in 0..MaxBatch, authentic \in BOOLEAN :
          WebhookBegin(p, n, authentic)
    \/ \E p \in W : WebhookMalformed(p)
    \/ \E p \in W, event \in E, promo \in PromoCodes : WebhookEvent(p, event, promo)
    \/ \E p \in W : WebhookWrite(p)
    \/ \E p \in W : WebhookEnd(p)

\* Mailjet webhook batches handled by the workers W
MailjetRequests(W) ==
    \/ \E p \in W, n \in 0..MaxBatch, is_list \in BOOLEAN : MailjetBegin(p, n, is_list)
    \/ \E p \in W, event \in MjEvents : MailjetEvent(p, event)
    \/ \E p \in W : MailjetMalformed(p)
    \/ \E p \in W : MailjetWrite(p)
    \/ \E p \in W : MailjetEnd(p)

\* reconciliation runs over provider subscribers of L by the workers W
SyncRuns(W, L) ==
    \/ \E p \in W, out \in ProviderOutcomes, n \in 0..MaxBatch : SyncBegin(p, out, n)
    \/ \E p \in W, ml_subscriber \in L, promo \in PromoCodes :
          SyncItem(p, ml_subscriber, promo)
    \/ \E p \in W : SyncWrite(p)
    \/ \E p \in W : SyncEnd(p)

\* runs of sync_subscribers by the workers W
SyncSubscribersRuns(W) ==
    \/ \E p \in W, out \in ProviderOutcomes, dry_run \in BOOLEAN :
          SyncSubscribersBegin(p, out, dry_run)
    \/ \E p \in W, out \in ProviderOutcomes : SyncSubscribersItem(p, out)
    \/ \E p \in W : SyncSubscribersEnd(p)

\* one request at a time
OneWorker == {1}

Next ==
    \/ SubscribeRequests(OneWorker)
    \/ ConfirmRequests(OneWorker)
    \/ UnsubscribeRequests(OneWorker)
    \/ WebhookRequests(OneWorker, MlEvents)
    \/ MailjetRequests(OneWorker)
    \/ SyncRuns(OneWorker, MlSubscribers)
    \/ SyncSubscribersRuns(OneWorker)

Spec == Init /\ [][Next]_vars

----------------------------------------------------------------------------
(* Concurrent requests of the subscribe endpoints *)

NextCreate == SubscribeRequests(Procs)

SpecCreate == Init /\ [][NextCreate]_vars

----------------------------------------------------------------------------
(* Concurrent confirmations of one pending subscriber *)

\* the store and the account after one POST /subscribe for ann@x.fr at
\* instant 1
InitConfirm ==
    /\ store = <<NewSubscriber("ann@x.fr",
                               generate_confirmation_token("ann@x.fr", 1),
                               generate_unsubscribe_token("ann@x.fr", 1))>>
    /\ now = 1
    /\ proc = [p \in Procs |-> Idle]
    /\ resp = [p \in Procs |-> NoResp]
    /\ disp = NoDispatch
    /\ ml = [e \in Emails |-> [status |-> "unconfirmed", optin_mails |-> 1]]
    /\ groups = 1
    /\ catalog = NoCatalog

\* events by which the provider reports a confirmed opt-in
OptInEvents ==
    {e \in MlEvents : e.type = "subscriber.double_opt_in" \/ e.status = "active"}

\* one worker serves the confirmation visits, another the provider's webhook
TokenWorkers == {1}
WebhookWorkers == {2}

NextConfirm ==
    \/ ConfirmRequests(TokenWorkers)
    \/ WebhookRequests(WebhookWorkers, OptInEvents)

SpecConfirm == InitConfirm /\ [][NextConfirm]_vars

----------------------------------------------------------------------------
(* Tokens over their lifetime *)

\* lifetime of a token of the given type, in hours
Lifetime(type) ==
    IF type = "confirmation" THEN CONFIRMATION_TOKEN_EXPIRY_HOURS
    ELSE UNSUBSCRIBE_TOKEN_EXPIRY_DAYS * 24

\* the instants at which a token is presented: while the subscriber is
\* created, and around the expiry of each of its tokens
TokenInstants ==
    (0..MaxTime)
        \cup {t + Lifetime(type) + k :
                 t \in 0..MaxTime, type \in {"confirmation", "unsubscribe"},
                 k \in {-1, 0, 1}}

\* time passes between two requests: datetime.utcnow() and the clock
\* jwt.decode compares exp with give a later instant
PassTime(t) ==
    /\ \A p \in Procs : proc[p].pc = "idle"
    /\ t > now
    /\ now' = t
    /\ UNCHANGED <<store, proc, resp, disp, ml, groups, catalog>>

\* the store after POST /subscribe for the address raw at instant t
InitToken ==
    /\ \E raw \in RawEmails, t \in 0..MaxTime :
          /\ store = <<NewSubscriber(Lower(raw),
                                     generate_confirmation_token(raw, t),
                                     generate_unsubscribe_token(raw, t))>>
          /\ now = t
    /\ proc = [p \in Procs |-> Idle]
    /\ resp = [p \in Procs |-> NoResp]
    /\ disp = NoDispatch
    /\ ml = [e \in Emails |-> [status |-> "unconfirmed", optin_mails |-> 1]]
    /\ groups = 1
    /\ catalog = NoCatalog

NextToken ==
    \/ \E t \in TokenInstants : PassTime(t)
    \/ ConfirmRequests(OneWorker)
    \/ UnsubscribeRequests(OneWorker)

SpecToken == InitToken /\ [][NextToken]_vars

----------------------------------------------------------------------------
(* The newsletter discount of one subscriber *)

\* an empty store, or the store after POST /subscribe for the address raw
InitPromo ==
    /\ \/ store = <<>>
       \/ \E raw \in RawEmails :
             store = <<NewSubscriber(Lower(raw),
                                     generate_confirmation_token(raw, 0),
                                     generate_unsubscribe_token(raw, 0))>>
    /\ now = 0
    /\ proc = [p \in Procs |-> Idle]
    /\ resp = [p \in Procs |-> NoResp]
    /\ disp = NoDispatch
    /\ ml = [e \in Emails |-> [status |-> "unconfirmed", optin_mails |-> 1]]
    /\ groups = 1
    /\ catalog = NoCatalog

NextPromo ==
    \/ ConfirmRequests(OneWorker)
    \/ UnsubscribeRequests(OneWorker)
    \/ PromoRequests(OneWorker)

SpecPromo == InitPromo /\ [][NextPromo]_vars

----------------------------------------------------------------------------
(* Concurrent calls of ensure_group on an account without the group *)

InitGroup ==
    /\ store = <<>>
    /\ now = 1
    /\ proc = [p \in Procs |-> Idle]
    /\ resp = [p \in Procs |-> NoResp]
    /\ disp = NoDispatch
    /\ ml = [e \in Emails |-> NoMl]
    /\ groups = 0
    /\ catalog = NoCatalog

NextGroup == EnsureGroupCalls(Procs)

SpecGroup == InitGroup /\ [][NextGroup]_vars

----------------------------------------------------------------------------
(* The admin's catalog mutations *)

InitCatalog ==
    /\ store = <<>>
    /\ now = 1
    /\ proc = [p \in Procs |-> Idle]
    /\ resp = [p \in Procs |-> NoResp]
    /\ disp = NoDispatch
    /\ ml = [e \in Emails |-> NoMl]
    /\ groups = 1
    /\ catalog = NoCatalog

NextCatalog ==
    \/ \E a \in ArtworkIds, inserted \in BOOLEAN : CreateArtwork(a, inserted)
    \/ \E a \in ArtworkIds : DeleteArtwork(a)
    \/ \E e \in EventIds, inserted \in BOOLEAN : CreateEvent(e, inserted)

SpecCatalog == InitCatalog /\ [][NextCatalog]_vars

----------------------------------------------------------------------------
(* Notification dispatch: notify_new_artwork and notify_new_event *)

DispatchKinds == {"new_artwork", "new_event"}

\* _update_stats_on_success: one increment per subscriber of the list
RECURSIVE IncrementAll(_, _)
IncrementAll(s, subscribers) ==
    IF subscribers = <<>> THEN s
    ELSE IncrementAll(increment_email_stats(s, Head(subscribers).email).store,
                      Tail(subscribers))

_update_stats_on_success(s, sent_count) ==
    IF sent_count <= 0 THEN s
    ELSE IncrementAll(s, get_active_subscribers(s))

\* send_campaign: created and scheduled are the outcomes of POST /campaigns
\* and of POST /campaigns/{id}/schedule. The result is "ok" for True, "none"
\* for False and "raise" for a MailerLiteError of _request, which send_campaign
\* does not catch
send_campaign(group_ids, created, scheduled) ==
    IF group_ids = {} THEN "none"
    ELSE IF created # "ok" THEN created
    ELSE scheduled

\* send_to_newsletter: group is the outcome of ensure_group
send_to_newsletter(group, created, scheduled) ==
    IF group = "raise" THEN "raise"
    ELSE send_campaign(IF group = "ok" THEN {"newsletter_site"} ELSE {},
                       created, scheduled)

\* _build_campaign_payload, "groups": group_ids: a scheduled campaign is
\* delivered by the provider to every active member of the group, who are the
\* subscribers mark_subscriber_confirmed made active: the confirmed ones.
\* Each mail carries the unsubscribe token rendered into the content
Campaign(s, n, token_of) ==
    {[to |-> s[i].email, token_of |-> token_of, campaign |-> n] :
        i \in {j \in 1..Len(s) : s[j].status = CONFIRMED}}

\* the dispatch after its loop: the statistics, then the returned result
DispatchReturn(d) ==
    /\ store' = _update_stats_on_success(store, d.sent_count)
    /\ disp' = [d EXCEPT !.pc = "done"]

\* lines 71-83 (147-162): the entity is looked up, then the active
\* subscribers; template tells whether the mail template file exists
DispatchBegin(kind, found, template) ==
    /\ disp.pc = "idle"
    /\ UNCHANGED <<now, proc, resp, ml, groups, catalog>>
    /\ LET subscribers == get_active_subscribers(store) IN
       IF ~found
       THEN /\ disp' = [NoDispatch EXCEPT !.pc = "done", !.kind = kind,
                                          !.errors = <<"not found">>]
            /\ UNCHANGED store
       ELSE IF subscribers = <<>>
       THEN /\ disp' = [NoDispatch EXCEPT !.pc = "done", !.kind = kind]
            /\ UNCHANGED store
       ELSE /\ disp' = [NoDispatch EXCEPT !.pc = "send", !.kind = kind,
                                          !.template = template,
                                          !.subscribers = subscribers, !.i = 1]
            /\ UNCHANGED store

\* lines 89-118 (168-199) for one subscriber: out is the outcome of
\* send_to_newsletter, which hands on a MailerLiteError of _request
DispatchSend(out) ==
    /\ disp.pc = "send"
    /\ disp.i <= Len(disp.subscribers)
    /\ UNCHANGED <<now, proc, resp, ml, groups, catalog>>
    /\ LET subscriber == disp.subscribers[disp.i]
           next == [disp EXCEPT !.i = @ + 1]
           failed == [next EXCEPT !.errors = Append(@, subscriber.email)]
           \* send_to_newsletter is called: one more call to the provider
           called == [next EXCEPT !.calls = @ + 1]
           sent == [called EXCEPT
                       !.sent_count = @ + 1,
                       !.delivered = @ \cup {subscriber.email},
                       !.inbox = @ \cup Campaign(store, disp.calls + 1,
                                                 subscriber.email)]
           after == IF subscriber.unsubscribe_token = NoToken THEN next
                    ELSE IF ~disp.template THEN failed
                    ELSE IF out = "ok" THEN sent
                    ELSE [called EXCEPT !.errors = Append(@, subscriber.email)]
       IN
       IF subscriber.unsubscribe_token # NoToken /\ disp.template /\ out = "raise"
       THEN disp' = [disp EXCEPT !.pc = "raised", !.calls = @ + 1] /\ UNCHANGED store
       ELSE IF after.i > Len(disp.subscribers)
       THEN DispatchReturn(after)
       ELSE disp' = after /\ UNCHANGED store

\* notify_removed_artwork: the template is rendered and, when it exists, one
\* campaign is sent with send_to_newsletter, whose outcome is out; the active
\* subscribers are not looked up before the send
DispatchRemoved(template, out) ==
    /\ disp.pc = "idle"
    /\ UNCHANGED <<now, proc, resp, ml, groups, catalog>>
    /\ LET d == [NoDispatch EXCEPT !.kind = "removed_artwork", !.template = template]
       IN
       IF ~template
       THEN /\ disp' = [d EXCEPT !.pc = "done", !.errors = <<"template">>]
            /\ UNCHANGED store
       ELSE IF out = "raise"
       THEN /\ disp' = [d EXCEPT !.pc = "raised", !.calls = 1]
            /\ UNCHANGED store
       ELSE IF out = "ok"
       THEN DispatchReturn([d EXCEPT !.calls = 1, !.sent_count = 1,
                                     !.inbox = Campaign(store, 1, "")])
       ELSE DispatchReturn([d EXCEPT !.calls = 1, !.errors = <<"send failed">>])

\* a subscriber document in the given status, as the lifecycle leaves it
SubscriberIn(email, status, with_token, sent) ==
    [NoDoc EXCEPT
        !.email = email, !.status = status,
        !.promo_code = IF status = PENDING THEN "" ELSE "EC10-A1B2C3",
        !.confirmed_at = IF status = PENDING THEN 0 ELSE 1,
        !.unsubscribed_at = IF status = UNSUBSCRIBED THEN 2 ELSE 0,
        !.emails_sent = sent,
        !.confirmation_token =
            IF with_token THEN generate_confirmation_token(email, 1) ELSE NoToken,
        !.unsubscribe_token =
            IF with_token THEN generate_unsubscribe_token(email, 1) ELSE NoToken]

\* the documents the k-th address can have before a dispatch; a document of
\* the legacy subscription path has no tokens, and no status until the
\* provider reports it active
DocsOf(k) ==
    {SubscriberIn(DispatchEmails[k], st, TRUE, 0) : st \in Statuses}
        \cup {SubscriberIn(DispatchEmails[k], CONFIRMED, tk, n) :
                 tk \in BOOLEAN, n \in 0..1}
        \cup {LegacySubscription(DispatchEmails[k], "EC10-A1B2C3")}

Stores(n) == {s \in [1..n -> UNION {DocsOf(k) : k \in 1..n}] :
                 \A k \in 1..n : s[k] \in DocsOf(k)}

InitDispatch ==
    /\ store \in UNION {Stores(n) : n \in 0..MaxDocs}
    /\ now = 3
    /\ proc = [p \in Procs |-> Idle]
    /\ resp = [p \in Procs |-> NoResp]
    /\ disp = NoDispatch
    /\ ml = [e \in Emails |-> NoMl]
    /\ groups = 1
    /\ catalog = NoCatalog

NextDispatch ==
    \/ \E kind \in DispatchKinds, found \in BOOLEAN, template \in BOOLEAN :
          DispatchBegin(kind, found, template)
    \/ \E group, created, scheduled \in ProviderOutcomes :
          DispatchSend(send_to_newsletter(group, created, scheduled))
    \/ \E template \in BOOLEAN, group, created, scheduled \in ProviderOutcomes :
          DispatchRemoved(template, send_to_newsletter(group, created, scheduled))

SpecDispatch == InitDispatch /\ [][NextDispatch]_vars

----------------------------------------------------------------------------
(* Claims *)

Range(s) == {s[i] : i \in 1..Len(s)}

Suppressed(d) == d.status \in {BOUNCED, COMPLAINED}

\* C1: a record that is bounced or complained is not among the active
\* subscribers (the dispatcher's recipients) in the state that follows, whatever
\* confirmation visit, webhook event or reconciliation run happens.
C1_SuppressedNeverActive ==
    [][\A i \in 1..Len(store) :
          Suppressed(store[i]) => store'[i] \notin Range(get_active_subscribers(store'))]_vars

\* C2: once a record holds a promo code, no step changes it to another value.
C2_PromoCodeStable ==
    [][\A i \in 1..Len(store) :
          store[i].promo_code # "" => store'[i].promo_code = store[i].promo_code]_vars

\* C3: the store never holds two records with the same normalized email, also
\* when create requests interleave and with the legacy subscription path.
C3_OneRecordPerEmail ==
    \A i, j \in 1..Len(store) : store[i].email = store[j].email => i = j

\* C4: once a confirmation visit and a webhook opt-in event for the same
\* pending email have both been handled, in any interleaving, the record is
\* confirmed, its promo code and confirmed_at were written once (one
\* timestamped write took place), and the promo code of the visit's redirect is
\* the stored one.
C4_ConfirmRaceSafe ==
    \A p \in TokenWorkers, q \in WebhookWorkers :
        (/\ proc[p].pc = "idle" /\ proc[q].pc = "idle"
         /\ resp[p].kind \in {"confirmed", "already"}
         /\ resp[q].kind = "processed")
        => LET d == get_by_email(store, resp[p].email) IN
           /\ d.status = CONFIRMED
           /\ d.promo_code = resp[p].promo
           /\ now = 2

\* C5: a subscribe request with consent that directly follows a subscribe
\* request with consent for the same new or pending email leaves exactly one
\* record for the email, pending, and answers with a success.
C5_SecondSubscribeSucceeds ==
    [][\A p \in OneWorker :
          (/\ proc[p].pc = "idle" /\ proc'[p].pc = "idle"
           /\ resp[p].op = "subscribe"
           /\ resp[p].kind \in {"pending", "resent", "provider_error"}
           /\ resp'[p] # resp[p]
           /\ resp'[p].op = "subscribe" /\ resp'[p].kind # "consent"
           /\ resp'[p].email = resp[p].email)
          => /\ resp'[p].code = 200
             /\ Cardinality({i \in 1..Len(store') : store'[i].email = resp[p].email}) = 1
             /\ get_by_email(store', resp[p].email).status = PENDING]_vars

\* C6: while a record is confirmed, no confirmation visit, webhook event or
\* reconciliation run changes its status, confirmed_at or promo_code: a
\* confirm trigger on a confirmed record writes nothing.
C6_ConfirmedIsNoOp ==
    [][\A i \in 1..Len(store) :
          store[i].status = CONFIRMED
          => /\ store'[i].confirmed_at = store[i].confirmed_at
             /\ store'[i].promo_code = store[i].promo_code
             /\ (\A p \in Procs : proc[p].w = "confirm" => store'[i] = store[i])]_vars

\* a confirmation visit was answered "already confirmed" for a confirmed record
C6_Witness ==
    \E p \in OneWorker :
        /\ resp[p].op = "confirm_token" /\ resp[p].kind = "already"
        /\ get_by_email(store, resp[p].email).status = CONFIRMED
        /\ get_by_email(store, resp[p].email).promo_code = resp[p].promo

\* C7: an unsubscribed record never becomes confirmed in one step, be it by a
\* confirmation visit, a webhook event or a reconciliation run.
C7_UnsubscribedNotConfirmed ==
    [][\A i \in 1..Len(store) :
          store[i].status = UNSUBSCRIBED => store'[i].status # CONFIRMED]_vars

\* C8: when a per-recipient dispatch has returned, emails_sent of each
\* recipient is one more than before if its send succeeded and unchanged if it
\* did not.
C8_CountersFollowSends ==
    disp.pc = "done"
    => \A k \in 1..Len(disp.subscribers) :
          get_by_email(store, disp.subscribers[k].email).emails_sent
              = disp.subscribers[k].emails_sent
                + (IF disp.subscribers[k].email \in disp.delivered THEN 1 ELSE 0)

\* C9: a failing send never aborts the dispatch: no exception leaves the
\* dispatcher, and a returned dispatch has attempted every recipient and
\* reports the successful sends as sent and the failed ones as failed.
C9_FailuresAreCollected ==
    disp.kind \in DispatchKinds
    => /\ disp.pc # "raised"
       /\ disp.pc = "done" /\ disp.subscribers # <<>>
          => /\ disp.i = Len(disp.subscribers) + 1
             /\ disp.sent_count = Cardinality(disp.delivered)
             /\ \A k \in 1..Len(disp.errors) : disp.errors[k] \notin disp.delivered

\* C10: get_active_subscribers returns exactly the confirmed records: every
\* record it returns is a confirmed record of the store, every confirmed record
\* is returned once, and the recipients a dispatch works on are confirmed.
C10_ActiveAreTheConfirmed ==
    LET r == get_active_subscribers(store) IN
    /\ \A k \in 1..Len(r) : r[k] \in Range(store) /\ r[k].status = CONFIRMED
    /\ \A i \in 1..Len(store) :
          store[i].status = CONFIRMED <=> store[i] \in Range(r)
    /\ Len(r) = Cardinality({i \in 1..Len(store) : store[i].status = CONFIRMED})
    /\ \A k \in 1..Len(disp.subscribers) : disp.subscribers[k].status = CONFIRMED

\* a dispatch works on the confirmed records of a store that also holds
\* records in other statuses
C10_Witness ==
    /\ disp.pc = "send"
    /\ disp.subscribers # <<>>
    /\ Len(disp.subscribers) < Len(store)
    /\ \E d \in Range(store) : Suppressed(d)
    /\ \E d \in Range(store) : d.status \in {PENDING, UNSUBSCRIBED}

\* the step is the last one of a POST /subscribe request of worker p
SubscribeAnswered(p) ==
    /\ proc[p].pc \in {"idle", "sub_check", "sub_insert"}
    /\ proc[p].pc # "idle" => proc[p].op = "subscribe"
    /\ proc'[p].pc = "idle"
    /\ resp'[p].op = "subscribe"

\* C11: a subscribe request with consent for an unsubscribed record succeeds,
\* leaves the record pending with confirmation and unsubscribe tokens issued
\* at the time of the request, and keeps unsubscribed_at.
C11_ResubscribeReopens ==
    [][\A p \in OneWorker :
          LET d == get_by_email(store, resp'[p].email)
              e == get_by_email(store', resp'[p].email)
          IN
          (SubscribeAnswered(p) /\ resp'[p].kind # "consent" /\ d.status = UNSUBSCRIBED)
          => /\ resp'[p].code = 200
             /\ e.status = PENDING
             /\ e.confirmation_token = generate_confirmation_token(d.email, now)
             /\ e.unsubscribe_token = generate_unsubscribe_token(d.email, now)
             /\ e.unsubscribed_at = d.unsubscribed_at]_vars

\* C12: an unsubscribe applied to a record that is already unsubscribed, by
\* POST /unsubscribe or by a provider event, leaves status, unsubscribed_at
\* and unsubscribe_reason as they are, and POST /unsubscribe answers 200.
C12_UnsubscribeTwiceIsNoOp ==
    [][\A p \in OneWorker :
          LET d == get_by_email(store, proc[p].email)
              e == get_by_email(store', proc[p].email)
          IN
          (/\ proc[p].pc \in {"unsub_write", "wh_write", "mj_write"}
           /\ proc[p].w = "unsubscribe"
           /\ proc'[p].pc # proc[p].pc
           /\ d.status = UNSUBSCRIBED)
          => /\ e.status = UNSUBSCRIBED
             /\ e.unsubscribed_at = d.unsubscribed_at
             /\ e.unsubscribe_reason = d.unsubscribe_reason
             /\ proc[p].pc = "unsub_write" => resp'[p].code = 200]_vars

\* C13: POST /subscribe answers 400 without touching the registry when consent
\* is refused, 409 when the record of the email is confirmed, and 200 in every
\* other case (no record, pending, unsubscribed, bounced, complained); the
\* requests whose provider call fails are left to C16, and records without a
\* status are left out.
C13_SubscribeStatusCodes ==
    [][\A p \in OneWorker :
          (/\ SubscribeAnswered(p)
           /\ resp'[p].kind # "provider_error"
           /\ get_by_email(store, resp'[p].email).status # NOSTATUS)
          => IF resp'[p].kind = "consent"
             THEN resp'[p].code = 400 /\ store' = store
             ELSE IF get_by_email(store, resp'[p].email).status = CONFIRMED
             THEN resp'[p].code = 409
             ELSE resp'[p].code = 200]_vars

\* C14: a subscribe request for an email whose record is pending leaves the
\* provider-side subscriber as it is: it is neither created nor deleted and
\* created again, and no further opt-in mail is sent.
C14_PendingSubscribeSendsNoMail ==
    [][\A p \in OneWorker :
          (/\ SubscribeAnswered(p)
           /\ resp'[p].kind # "consent"
           /\ get_by_email(store, resp'[p].email).status = PENDING)
          => ml' = ml]_vars

\* C15: every answer of GET /confirm is a redirect: to the confirmed page
\* with the promo code, or to the error page with reason invalid_token,
\* not_found or update_failed.
C15_ConfirmAlwaysRedirects ==
    \A p \in OneWorker :
        resp[p].op = "confirm_token"
        => /\ resp[p].code = 302
           /\ resp[p].kind \in {"confirmed", "already", "invalid_token",
                                "not_found", "update_failed"}

\* C16: a subscribe or unsubscribe request whose provider call failed answers
\* with a success, and the registry change of the request is kept.
C16_ProviderFailureIsDegradedSuccess ==
    \A p \in OneWorker :
        (resp[p].op \in {"subscribe", "unsubscribe"} /\ resp[p].kind = "provider_error")
        => /\ resp[p].code = 200
           /\ get_by_email(store, resp[p].email).status
                  = (IF resp[p].op = "subscribe" THEN PENDING ELSE UNSUBSCRIBED)

\* C17: in a webhook batch an event without email, for an email the registry
\* does not know, or of an unknown event type leads to no write; a bounce
\* event that is applied leaves its subscriber bounced; the batch is answered
\* with a success.
C17_BadEventsAreSkipped ==
    [][\A p \in OneWorker :
          /\ (proc[p].pc \in {"wh_loop", "mj_loop"}
                 /\ proc'[p].pc \in {"wh_write", "mj_write"})
             => /\ proc'[p].email # ""
                /\ get_by_email(store, proc'[p].email) # NoDoc
                /\ proc'[p].type \in MlEventTypes \cup MjEventTypes
          /\ (proc[p].pc \in {"wh_write", "mj_write"} /\ proc[p].w = "bounced"
                 /\ proc'[p].pc # proc[p].pc)
             => get_by_email(store', proc[p].email).status = BOUNCED
          /\ (proc[p].pc \in {"wh_loop", "mj_loop"} /\ proc[p].left = 0
                 /\ proc'[p].pc = "idle")
             => resp'[p].code = 200]_vars

\* C18: a webhook request past its payload checks ends only when no event of
\* the batch is left, and ends with a success: an event whose processing fails
\* does not keep the later events from being processed.
C18_FailingEventDoesNotAbort ==
    [][\A p \in OneWorker :
          (proc[p].pc \in {"wh_loop", "mj_loop"} /\ proc'[p].pc = "idle")
          => proc[p].left = 0 /\ resp'[p].code = 200]_vars

\* C19: a webhook request whose signature header does not match the
\* configured secret is answered with 401 and changes nothing in the registry.
C19_BadSignatureIs401 ==
    [][\A p \in OneWorker :
          (proc[p].pc = "idle" /\ proc'[p].pc = "idle"
              /\ resp'[p].kind = "invalid_signature")
          => resp'[p].code = 401 /\ store' = store]_vars

\* C20: an unexpired confirmation token of a subscriber is rejected by POST
\* and GET /unsubscribe, an unexpired unsubscribe token is rejected by GET
\* /confirm, and the request with the rejected token changes nothing in the
\* registry.
C20_WrongTokenTypeRejected ==
    [][\A p \in OneWorker : \A token \in Presentable(store) \ {NoToken} :
          /\ (token.type = "confirmation" /\ now <= token.exp
                 /\ \E reason \in Reasons : UnsubscribeBegin(p, token, reason))
             => resp'[p].kind = "invalid_token" /\ resp'[p].code = 400
                   /\ proc'[p].pc = "idle" /\ store' = store
          /\ (token.type = "confirmation" /\ now <= token.exp
                 /\ UnsubscribeGet(p, token))
             => resp'[p].kind = "invalid_unsubscribe_token" /\ store' = store
          /\ (token.type = "unsubscribe" /\ now <= token.exp
                 /\ \E promo \in PromoCodes : ConfirmBegin(p, token, promo))
             => resp'[p].kind = "invalid_token" /\ proc'[p].pc = "idle"
                   /\ store' = store]_vars

\* a token was rejected by POST /unsubscribe while the registry holds a
\* subscriber whose confirmation token has not expired
C20_Witness ==
    \E p \in OneWorker :
        /\ resp[p].op = "unsubscribe" /\ resp[p].kind = "invalid_token"
        /\ \E d \in Range(store) :
              /\ d.confirmation_token # NoToken
              /\ now <= d.confirmation_token.exp
              /\ d.status \in {PENDING, CONFIRMED}

\* the email a token check of worker p has returned in this step: the one the
\* handler answers with or goes on with
Verified(p) == IF proc'[p].pc = "idle" THEN resp'[p].email ELSE proc'[p].email

\* C21: a token of a subscriber presented to the flow of its type verifies to
\* the subscriber's lower-cased email at every instant before its expiry (48
\* hours after it was issued for a confirmation token, 365 days for an
\* unsubscribe token) and is rejected at every instant after its expiry.
C21_TokenLifetime ==
    [][\A p \in OneWorker : \A d \in Range(store) :
          LET c == d.confirmation_token
              u == d.unsubscribe_token
          IN
          /\ (c # NoToken /\ \E promo \in PromoCodes : ConfirmBegin(p, c, promo))
             => /\ now < c.iat + 48
                      => Verified(p) = d.email /\ d.email \in Emails
                /\ now > c.iat + 48
                      => resp'[p].kind = "invalid_token" /\ proc'[p].pc = "idle"
          /\ (u # NoToken /\ \E reason \in Reasons : UnsubscribeBegin(p, u, reason))
             => /\ now < u.iat + 365 * 24
                      => Verified(p) = d.email /\ d.email \in Emails
                /\ now > u.iat + 365 * 24
                      => resp'[p].kind = "invalid_token" /\ proc'[p].pc = "idle"
          /\ (u # NoToken /\ UnsubscribeGet(p, u))
             => /\ now < u.iat + 365 * 24
                      => Verified(p) = d.email /\ resp'[p].kind = "unsubscribe_page"
                /\ now > u.iat + 365 * 24
                      => resp'[p].kind = "invalid_unsubscribe_token"]_vars

\* GET /unsubscribe has accepted the unsubscribe token of a subscriber whose
\* confirmation token has expired
C21_Witness ==
    \E p \in OneWorker : \E d \in Range(store) :
        /\ d.confirmation_token # NoToken
        /\ now > d.confirmation_token.iat + 48
        /\ now < d.unsubscribe_token.iat + 365 * 24
        /\ resp[p].op = "unsubscribe_get" /\ resp[p].kind = "unsubscribe_page"
        /\ resp[p].email = d.email

\* C22: when a reconciliation run comes to a provider subscriber reported
\* active whose local record is pending, it decides to confirm the record,
\* with the promo code of the record if it has one and a newly generated one
\* otherwise, and its write leaves the record confirmed with that code.
C22_SyncConfirmsPending ==
    [][\A p \in OneWorker :
          /\ \A raw \in RawEmails :
                LET d == get_by_email(store, raw) IN
                (/\ d.status = PENDING
                 /\ \E promo \in PromoCodes :
                       SyncItem(p, [email |-> raw, status |-> "active"], promo))
                => /\ proc'[p].pc = "sync_write" /\ proc'[p].w = "confirm"
                   /\ proc'[p].email = d.email
                   /\ proc'[p].promo \in PromoCodes
                   /\ d.promo_code # "" => proc'[p].promo = d.promo_code
          /\ LET d == get_by_email(store, proc[p].email)
                  e == get_by_email(store', proc[p].email)
             IN
             (/\ proc[p].pc = "sync_write" /\ proc[p].w = "confirm"
              /\ proc'[p].pc = "sync_loop"
              /\ d.status = PENDING)
             => /\ e.status = CONFIRMED
                /\ e.promo_code = proc[p].promo
                /\ e.confirmed_at = now]_vars

\* a reconciliation run has decided to confirm a pending record that has no
\* promo code yet
C22_Witness ==
    \E p \in OneWorker :
        /\ proc[p].pc = "sync_write" /\ proc[p].w = "confirm"
        /\ proc[p].promo \in PromoCodes
        /\ get_by_email(store, proc[p].email).status = PENDING
        /\ get_by_email(store, proc[p].email).promo_code = ""

\* C23: a step of a reconciliation run creates no local record, changes no
\* local record other than the one of the provider subscriber it is working
\* on, and writes nothing on the provider side.
C23_SyncTouchesNoOneElse ==
    [][\A p \in OneWorker :
          proc[p].op \in {"sync", "sync_subscribers"}
          => /\ Len(store') = Len(store)
             /\ \A i \in 1..Len(store) :
                   store'[i] # store[i]
                   => proc[p].pc = "sync_write" /\ store[i].email = proc[p].email
             /\ ml' = ml]_vars

\* C24: a dispatch (new artwork, removed artwork or new event) on a registry
\* without any confirmed subscriber has sent nothing and has made no call to
\* the mailing provider.
C24_NoRecipientNoCall ==
    (disp.pc # "idle" /\ get_active_subscribers(store) = <<>>)
    => disp.sent_count = 0 /\ disp.calls = 0

\* C25: whenever the provider does not accept a campaign (it cannot be
\* created or cannot be scheduled, by a network error, an HTTP error or an
\* answer without content), send_campaign returns False to the dispatcher: the
\* send is counted as failed and no exception is raised.
C25_SendCampaignNeverRaises ==
    [][\A created, scheduled \in ProviderOutcomes :
          (/\ <<created, scheduled>> # <<"ok", "ok">>
           /\ disp.pc = "send"
           /\ disp.template
           /\ disp.subscribers[disp.i].unsubscribe_token # NoToken
           /\ DispatchSend(send_to_newsletter("ok", created, scheduled)))
          => /\ send_campaign({"newsletter_site"}, created, scheduled) = "none"
             /\ disp'.pc # "raised"
             /\ disp'.sent_count = disp.sent_count
             /\ disp'.errors = Append(disp.errors, disp.subscribers[disp.i].email)]_vars

\* the background task a successful admin request has to add
TaskOf(answer) ==
    [kind |-> IF answer.op = "create_artwork" THEN "new_artwork"
              ELSE IF answer.op = "delete_artwork" THEN "removed_artwork"
              ELSE "new_event",
     id |-> answer.id]

\* C26: an admin request that creates an artwork, deletes an artwork or
\* creates an event and succeeds has committed its mutation and has added
\* exactly one notification task for that entity; a request that fails adds
\* none and leaves the catalog as it is.
C26_OneTaskPerMutation ==
    [][catalog' # catalog
       => LET answer == catalog'.answer IN
          IF answer.code = 200
          THEN /\ catalog'.tasks = Append(catalog.tasks, TaskOf(answer))
               /\ answer.op = "create_artwork" => answer.id \in catalog'.artworks
               /\ answer.op = "delete_artwork" => answer.id \notin catalog'.artworks
               /\ answer.op = "create_event" => answer.id \in catalog'.events
          ELSE /\ catalog'.tasks = catalog.tasks
               /\ catalog'.artworks = catalog.artworks
               /\ catalog'.events = catalog.events]_vars

\* C28: however calls of ensure_group for the newsletter group interleave,
\* the provider account holds at most one group of that name and every call
\* that returns a group id returns the same one.
C28_EnsureGroupIdempotent ==
    /\ groups <= 1
    /\ \A p, q \in Procs :
          (resp[p].kind = "group" /\ resp[q].kind = "group")
          => resp[p].code = resp[q].code

\* C27: for a confirmed subscriber whose promo code is unused,
\* mark-promo-used answers success and sets promo_used on the record, and a
\* check-subscriber for that email after it answers discount 0 and no promo
\* code
C27_PromoRetired ==
    [][\A p \in Procs, raw \in RawEmails :
          LET subscriber == get_by_email(store, Lower(raw)) IN
          /\ (/\ MarkPromoUsed(p, raw)
              /\ subscriber.status = CONFIRMED
              /\ ~subscriber.promo_used)
             => /\ resp'[p].code = 200
                /\ get_by_email(store', Lower(raw)).promo_used
          /\ (/\ CheckSubscriber(p, raw)
              /\ subscriber.status = CONFIRMED
              /\ resp[p].op = "mark_promo_used"
              /\ resp[p].email = Lower(raw))
             => /\ resp'[p].kind # "discount"
                /\ resp'[p].promo = ""]_vars

\* C29: when a new-artwork or new-event dispatch has returned, each recipient
\* whose send succeeded has been delivered exactly one message, and every
\* delivered message carries the unsubscribe token of the subscriber it was
\* delivered to
C29_OneMessageOwnToken ==
    (disp.pc = "done" /\ disp.kind \in DispatchKinds)
    => /\ \A r \in disp.delivered :
             Cardinality({m \in disp.inbox : m.to = r}) = 1
       /\ \A m \in disp.inbox : m.token_of = m.to

\* C30: in the MailerLite webhook, an event of type subscriber.bounced,
\* subscriber.complaint or subscriber.unsubscribed for a known subscriber
\* decides the write of its own type (none for an unsubscription of an
\* already unsubscribed record) whatever the status of its payload is, and
\* never a confirmation
C30_EventTypeDecides ==
    [][\A p \in Procs, event \in MlEvents, promo \in PromoCodes :
          LET existing == get_by_email(store, event.email)
              own == IF event.type = "subscriber.bounced" THEN "bounced"
                     ELSE IF event.type = "subscriber.complaint" THEN "complained"
                     ELSE "unsubscribe"
          IN
          (/\ WebhookEvent(p, event, promo)
           /\ event.type \in {"subscriber.bounced", "subscriber.complaint",
                               "subscriber.unsubscribed"}
           /\ event.email # ""
           /\ existing # NoDoc)
          => \/ proc'[p].pc = "wh_write" /\ proc'[p].w = own
             \/ /\ own = "unsubscribe"
                /\ existing.status = UNSUBSCRIBED
                /\ proc'[p].pc = "wh_loop"]_vars

====
